---------------------------- MODULE Spec2Model ----------------------------
(***************************************************************************)
(* llm-sdk: the request dispatch pipeline.                                 *)
(*                                                                         *)
(*   LlmSdk::new            builds the client: tracing, then retry         *)
(*   LlmSdk::<operation>    prepare_request -> send_and_log -> decode      *)
(*   RetryMiddleware::handle  content-type gated retry                     *)
(*                                                                         *)
(* Strings whose content the code inspects (header values, tokens) are     *)
(* sequences of one-character strings, so that contains(), == and          *)
(* format!() are computed and not assumed.  Times are in seconds.          *)
(*                                                                         *)
(* The crates the code calls are modelled at the call sites, by what they  *)
(* do: reqwest (json, multipart, bearer_auth, timeout, try_clone, text,    *)
(* json, bytes), reqwest_middleware (the chain), reqwest_retry (the        *)
(* transient retry loop and its classification), reqwest_tracing.          *)
(***************************************************************************)
EXTENDS Integers, Sequences, FiniteSets, TLC

VARIABLES sdk, calls

vars == <<sdk, calls>>

(***************************************************************************)
(* Bounds of the model.                                                    *)
(***************************************************************************)
\* LlmSdk::new is given max_retries in 0..MaxRetriesBound.
MaxRetriesBound == 2

\* The logical calls of a run.
Calls == {"c1", "c2"}

\* The calls the specification Spec starts.
SpecCalls == {"c1"}

(***************************************************************************)
(* Strings.                                                                *)
(***************************************************************************)
MULTIPART_FORM_DATA == <<"m","u","l","t","i","p","a","r","t","/","f","o","r","m","-","d","a","t","a">>

APPLICATION_OCTET_STREAM == <<"a","p","p","l","i","c","a","t","i","o","n","/","o","c","t","e","t","-","s","t","r","e","a","m">>

APPLICATION_JSON == <<"a","p","p","l","i","c","a","t","i","o","n","/","j","s","o","n">>

BOUNDARY_PARAM == <<";"," ","b","o","u","n","d","a","r","y","=">>

CHARSET_PARAM == <<";"," ","c","h","a","r","s","e","t","=","b","i","n","a","r","y">>

MULTIPART_MIXED_CASE == <<"M","u","l","t","i","p","a","r","t","/","F","o","r","m","-","D","a","t","a">>

BEARER_PREFIX == <<"B","e","a","r","e","r"," ">>

API_FAILED_PREFIX == <<"A","P","I"," ","f","a","i","l","e","d",":"," ">>

\* A header byte outside visible ASCII: HeaderValue::to_str fails on it.
OpaqueByte == "0xFF"

\* str::contains: sub occurs in s as a contiguous run of characters.
Contains(s, sub) ==
    \E i \in 0..(Len(s) - Len(sub)) : SubSeq(s, i + 1, i + Len(sub)) = sub

\* HeaderValue::to_str: Ok only when every byte is visible ASCII.
ToStrOk(v) == \A i \in 1..Len(v) : v[i] # OpaqueByte

\* HeaderMap::get: None, or Some(value).
NoHeader == [present |-> FALSE, value |-> <<>>]

Header(v) == [present |-> TRUE, value |-> v]

(***************************************************************************)
(* Program constants.                                                      *)
(***************************************************************************)
\* const TIMEOUT: u64 = 30;
TIMEOUT == 30

\* Request::timeout() is None.
NoTimeout == 0

(***************************************************************************)
(* LlmSdk::new.                                                            *)
(***************************************************************************)
BaseUrls == {"https://api.openai.com/v1", "http://localhost:8080/v1"}

Tokens == {<<>>, <<"s","k">>}

\* The two middlewares added in the other order.
ChainTracingInsideRetry == <<"retry", "tracing">>

\* ClientBuilder::with appends: the first middleware added is the outermost.
ClientChain == <<"tracing", "retry">>

LlmSdkNew(base_url, token, max_retries) ==
    [base_url    |-> base_url,
     token       |-> token,
     max_retries |-> max_retries,
     chain       |-> ClientChain]

(***************************************************************************)
(* Request descriptors and IntoRequest.                                    *)
(***************************************************************************)
WhisperResponseFormats == {"json", "text", "srt", "verbose_json", "vtt"}

WhisperRequestTypes == {"transcription", "translation"}

\* multipart::Form::new draws a fresh boundary.
Boundaries == {<<"a">>, <<"b">>}

NoFormat == "none"

JsonOps == {"chat_completion", "create_image", "speech", "embedding"}

\* The optional fields of WhisperRequest that are Some: a descriptor sets
\* none of them, the language, or all three.
WhisperOptionSets == {{}, {"language"}, {"language", "prompt", "temperature"}}

Descriptors ==
    {[op |-> o, response_format |-> NoFormat, request_type |-> NoFormat,
      options |-> {}] : o \in JsonOps}
    \cup
    {[op |-> "whisper", response_format |-> f, request_type |-> t, options |-> s] :
        f \in WhisperResponseFormats, t \in WhisperRequestTypes,
        s \in WhisperOptionSets}

OPENAI_V1 == "https://api.openai.com/v1"

\* The url each into_request posts to.
IntoRequestUrl(d, base_url) ==
    CASE d.op = "create_image"    -> <<base_url, "/images/generations">>
      [] d.op = "chat_completion" -> <<OPENAI_V1, "/chat/completions">>
      [] d.op = "speech"          -> <<OPENAI_V1, "/audio/speech">>
      [] d.op = "embedding"       -> <<OPENAI_V1, "/embeddings">>
      [] d.op = "whisper" /\ d.request_type = "transcription"
                                  -> <<OPENAI_V1, "/audio/transcriptions">>
      [] OTHER                    -> <<OPENAI_V1, "/audio/translations">>

\* One field of a body: a part of a form, or the serialized request.
Field(name, value) == [name |-> name, value |-> value]

NoBody == [kind |-> "none", boundary |-> <<>>, fields |-> <<>>]

\* WhisperRequest::into_form: the file, the model and the response format,
\* then the language (for a transcription only), the prompt and the
\* temperature when they are set.
IntoForm(d) ==
    <<Field("file", "audio/mp3"),
      Field("model", "whisper-1"),
      Field("response_format", d.response_format)>>
    \o (IF d.request_type = "transcription" /\ "language" \in d.options
        THEN <<Field("language", "en")>> ELSE <<>>)
    \o (IF "prompt" \in d.options THEN <<Field("prompt", "p")>> ELSE <<>>)
    \o (IF "temperature" \in d.options THEN <<Field("temperature", "0")>> ELSE <<>>)

\* RequestBuilder::json: serde_json::to_vec of the request, its fields in the
\* order of the struct.
JsonBody(d) ==
    [kind |-> "json", boundary |-> <<>>, fields |-> <<Field(d.op, "request")>>]

\* As MultipartBody, with a part that holds the form's boundary.
MultipartBodyBoundaryPart(d, boundary) ==
    [kind |-> "multipart", boundary |-> boundary,
     fields |-> IntoForm(d) \o <<Field("boundary", boundary[1])>>]

\* RequestBuilder::multipart: the parts of the form, each framed by the
\* form's boundary.
MultipartBody(d, boundary) ==
    [kind |-> "multipart", boundary |-> boundary, fields |-> IntoForm(d)]

\* RequestBuilder::json sets application/json and an in-memory body;
\* RequestBuilder::multipart sets multipart/form-data; boundary=<b> and a
\* streamed body, which Request::try_clone cannot copy.
IntoRequest(d, base_url, boundary) ==
    [method        |-> "POST",
     url           |-> IntoRequestUrl(d, base_url),
     content_type  |-> IF d.op = "whisper"
                       THEN Header(MULTIPART_FORM_DATA \o BOUNDARY_PARAM \o boundary)
                       ELSE Header(APPLICATION_JSON),
     authorization |-> NoHeader,
     timeout       |-> NoTimeout,
     body          |-> IF d.op = "whisper"
                       THEN MultipartBody(d, boundary)
                       ELSE JsonBody(d),
     cloneable     |-> d.op # "whisper"]

\* RequestBuilder::bearer_auth.
BearerAuth(req, token) ==
    [req EXCEPT !.authorization = Header(BEARER_PREFIX \o token)]

\* As PrepareRequest, with bearer_auth called for an empty token too.
PrepareRequestAlwaysAuth(s, d, boundary) ==
    [BearerAuth(IntoRequest(d, s.base_url, boundary), s.token)
        EXCEPT !.timeout = TIMEOUT]

\* As PrepareRequest, without the timeout.
PrepareRequestNoTimeout(s, d, boundary) ==
    LET req == IntoRequest(d, s.base_url, boundary)
    IN  IF s.token = <<>> THEN req ELSE BearerAuth(req, s.token)

\* LlmSdk::prepare_request.
PrepareRequest(s, d, boundary) ==
    LET req  == IntoRequest(d, s.base_url, boundary)
        req2 == IF s.token = <<>> THEN req ELSE BearerAuth(req, s.token)
    IN  [req2 EXCEPT !.timeout = TIMEOUT]

(***************************************************************************)
(* Requests handed to the client directly (ClientWithMiddleware::execute): *)
(* what Middleware::handle accepts beyond the five operations' requests.   *)
(***************************************************************************)
ExecuteContentTypes ==
    {NoHeader,
     Header(APPLICATION_OCTET_STREAM),
     Header(APPLICATION_OCTET_STREAM \o CHARSET_PARAM),
     Header(MULTIPART_MIXED_CASE),
     Header(MULTIPART_FORM_DATA \o BOUNDARY_PARAM \o <<OpaqueByte>>)}

ExecuteRequests ==
    {[method        |-> "POST",
      url           |-> <<OPENAI_V1, "/files">>,
      content_type  |-> h,
      authorization |-> NoHeader,
      timeout       |-> NoTimeout,
      body          |-> NoBody,
      cloneable     |-> cl] : h \in ExecuteContentTypes, cl \in BOOLEAN}

NoRequest ==
    [method |-> "", url |-> <<>>, content_type |-> NoHeader,
     authorization |-> NoHeader, timeout |-> NoTimeout, body |-> NoBody,
     cloneable |-> FALSE]

(***************************************************************************)
(* The network: what one send attempt can end in.                          *)
(***************************************************************************)
Statuses == {200, 399, 400, 408, 429, 500}

JsonObject(key, val) == <<"{", key, ":", val, "}">>

Bodies == {JsonObject("text", "hi"), JsonObject("data", "x"), <<"hi">>}

\* reqwest::Error kinds of a failed send.
SendErrors == {"connect", "redirect"}

\* Seconds until the server's answer is complete.
Latencies == {1, 31}

NoOutcome == [kind |-> "none", status |-> 0, body |-> <<>>, why |-> ""]

Response(status, body) ==
    [kind |-> "response", status |-> status, body |-> body, why |-> ""]

ReqwestError(why) ==
    [kind |-> "error", status |-> 0, body |-> <<>>, why |-> why]

\* reqwest_middleware::Error::Middleware.
MiddlewareError(why) ==
    [kind |-> "middleware", status |-> 0, body |-> <<>>, why |-> why]

ServerAnswers ==
    {Response(st, b) : st \in Statuses, b \in Bodies}
    \cup {ReqwestError(e) : e \in SendErrors}

\* An outcome without its body: what the history of a call keeps of it.
Summary(o) == [o EXCEPT !.body = <<>>]

\* The request's timeout ends an attempt whose answer is not complete in time.
AttemptEnd(req, answer, latency) ==
    IF req.timeout # NoTimeout /\ latency >= req.timeout
    THEN [outcome |-> ReqwestError("timeout"), took |-> req.timeout]
    ELSE [outcome |-> answer, took |-> latency]

(***************************************************************************)
(* reqwest_retry, as RetryMiddleware's inner policy.                       *)
(***************************************************************************)
IsClientError(status) == status >= 400 /\ status <= 499

IsServerError(status) == status >= 500 /\ status <= 599

IsSuccess(status) == status >= 200 /\ status <= 299

REQUEST_TIMEOUT == 408

TOO_MANY_REQUESTS == 429

\* As Retryable, with 429 taken for a fatal client error.
RetryableNo429(o) ==
    IF o.kind = "response"
    THEN IF IsServerError(o.status) THEN "transient"
         ELSE IF IsClientError(o.status) /\ o.status # REQUEST_TIMEOUT THEN "fatal"
         ELSE IF IsSuccess(o.status) THEN "none"
         ELSE IF o.status = REQUEST_TIMEOUT THEN "transient"
         ELSE "fatal"
    ELSE IF o.kind = "error" /\ o.why \in {"timeout", "connect"} THEN "transient"
    ELSE "fatal"

\* Retryable::from_reqwest_response: "transient", "fatal" or "none".
Retryable(o) ==
    IF o.kind = "response"
    THEN IF IsServerError(o.status) THEN "transient"
         ELSE IF IsClientError(o.status)
                 /\ o.status # REQUEST_TIMEOUT /\ o.status # TOO_MANY_REQUESTS
              THEN "fatal"
         ELSE IF IsSuccess(o.status) THEN "none"
         ELSE IF o.status = REQUEST_TIMEOUT \/ o.status = TOO_MANY_REQUESTS
              THEN "transient"
         ELSE "fatal"
    ELSE IF o.kind = "error" /\ o.why \in {"timeout", "connect"} THEN "transient"
    ELSE "fatal"

\* Request::try_clone, called by the retry loop before every next.run: None
\* for a streamed body, else a copy with the same method, url, headers and
\* timeout.
TryClone(req) ==
    IF req.cloneable
    THEN [some |-> TRUE,
          req  |-> [method        |-> req.method,
                    url           |-> req.url,
                    content_type  |-> req.content_type,
                    authorization |-> req.authorization,
                    timeout       |-> req.timeout,
                    body          |-> req.body,
                    cloneable     |-> TRUE]]
    ELSE [some |-> FALSE, req |-> req]

\* As ShouldRetry, with one retry too many.
ShouldRetryOffByOne(n_past_retries, max_retries) == n_past_retries <= max_retries

\* RetryPolicy::should_retry of ExponentialBackoff with max_n_retries.
ShouldRetry(n_past_retries, max_retries) == n_past_retries < max_retries

\* The wait before retry n (jitter left out): 1 s doubled per past retry.
BackoffWait(n_past_retries) == 2 ^ n_past_retries

(***************************************************************************)
(* RetryMiddleware::handle: which branch of the match the request takes.   *)
(***************************************************************************)
\* As RetryPath, with application/octet-stream not excluded.
RetryPathMultipartOnly(req) ==
    LET h == req.content_type
    IN  IF h.present /\ ToStrOk(h.value) /\ Contains(h.value, MULTIPART_FORM_DATA)
        THEN "bypass" ELSE "retry"

\* As RetryPath, with a request without Content-Type sent once.
RetryPathAbsentBypass(req) ==
    LET h == req.content_type
    IN  IF ~h.present THEN "bypass"
        ELSE IF ToStrOk(h.value)
                /\ ( \/ Contains(h.value, MULTIPART_FORM_DATA)
                     \/ h.value = APPLICATION_OCTET_STREAM )
             THEN "bypass"
             ELSE "retry"

\* As RetryPath, with application/octet-stream matched as a substring.
RetryPathOctetSubstring(req) ==
    LET h == req.content_type
    IN  IF h.present /\ ToStrOk(h.value)
        THEN IF Contains(h.value, MULTIPART_FORM_DATA)
                \/ Contains(h.value, APPLICATION_OCTET_STREAM)
             THEN "bypass"
             ELSE "retry"
        ELSE "retry"

\* The match of lines 20-35: "bypass" is next.run, "retry" is inner.handle.
RetryPath(req) ==
    LET h == req.content_type
    IN  IF h.present /\ ToStrOk(h.value)
        THEN IF Contains(h.value, MULTIPART_FORM_DATA)
                \/ h.value = APPLICATION_OCTET_STREAM
             THEN "bypass"
             ELSE "retry"
        ELSE "retry"

(***************************************************************************)
(* Decoding.                                                               *)
(***************************************************************************)
IsJsonObject(b) == Len(b) = 5 /\ b[1] = "{" /\ b[3] = ":" /\ b[5] = "}"

\* The field the operation's response type cannot be built without.
RequiredField(op) ==
    CASE op = "whisper"      -> "text"
      [] op = "create_image" -> "data"
      [] op = "embedding"    -> "data"
      [] OTHER               -> ""

ResponseType(op) ==
    CASE op = "whisper"         -> "WhisperResponse"
      [] op = "create_image"    -> "CreateImageResponse"
      [] op = "embedding"       -> "EmbeddingResponse"
      [] op = "chat_completion" -> "ChatCompletionResponse"
      [] OTHER                  -> "Bytes"

NoResult == [state |-> "none", type |-> "", text |-> <<>>]

Ok(type, text) == [state |-> "ok", type |-> type, text |-> text]

Err(type, text) == [state |-> "err", type |-> type, text |-> text]

\* As JsonDecode, with a default value for a body that does not parse.
JsonDecodeOrDefault(op, body) ==
    IF IsJsonObject(body) /\ (RequiredField(op) = "" \/ body[2] = RequiredField(op))
    THEN Ok(ResponseType(op), IF RequiredField(op) = "" THEN <<>> ELSE <<body[4]>>)
    ELSE Ok(ResponseType(op), <<>>)

\* Response::json::<T>.
JsonDecode(op, body) ==
    IF IsJsonObject(body) /\ (RequiredField(op) = "" \/ body[2] = RequiredField(op))
    THEN Ok(ResponseType(op), IF RequiredField(op) = "" THEN <<>> ELSE <<body[4]>>)
    ELSE Err("reqwest:decode", <<>>)

\* As Decode, with the whisper branch taken on what the body looks like.
DecodeSniffBody(op, is_json, body) ==
    IF op = "speech" THEN Ok("Bytes", body)
    ELSE IF op = "whisper" /\ ~IsJsonObject(body) THEN Ok("WhisperResponse", body)
    ELSE JsonDecode(op, body)

\* The tail of each operation of LlmSdk, once the body is read.
Decode(op, is_json, body) ==
    IF op = "speech" THEN Ok("Bytes", body)
    ELSE IF op = "whisper" /\ ~is_json THEN Ok("WhisperResponse", body)
    ELSE JsonDecode(op, body)

\* As ApiFailed, with the text left out.
ApiFailedWithoutText(text) == Err("api_failed", API_FAILED_PREFIX)

\* anyhow!("API failed: {}", text).
ApiFailed(text) == Err("api_failed", API_FAILED_PREFIX \o text)

\* The error a failed send surfaces as.
SendError(o) ==
    Err((IF o.kind = "middleware" THEN "middleware:" ELSE "reqwest:") \o o.why, <<>>)

\* As SendAndLogFails, without the client errors.
SendAndLogFailsOnServerErrorOnly(status) == IsServerError(status)

\* send_and_log: status.is_client_error() || status.is_server_error().
SendAndLogFails(status) == IsClientError(status) \/ IsServerError(status)

(***************************************************************************)
(* State.  sdk is the LlmSdk value; calls[c] is one logical call: where it *)
(* is (pc; inside the chain, depth and dir), what it sent and got.         *)
(***************************************************************************)
IdleCall ==
    [pc             |-> "idle",
     op             |-> "none",
     desc           |-> [op |-> "none", response_format |-> NoFormat,
                         request_type |-> NoFormat, options |-> {}],
     is_json        |-> FALSE,
     req            |-> NoRequest,
     depth          |-> 0,
     dir            |-> "down",
     path           |-> "none",
     n_past_retries |-> 0,
     inflight       |-> 0,
     attempts       |-> 0,
     sent           |-> <<>>,
     log            |-> <<>>,
     cur            |-> NoOutcome,
     last           |-> NoOutcome,
     handled        |-> NoOutcome,
     spans          |-> 0,
     observed       |-> <<>>,
     elapsed        |-> 0,
     waited         |-> 0,
     errlog         |-> <<>>,
     read           |-> "none",
     result         |-> NoResult]

Init ==
    /\ sdk \in {LlmSdkNew(b, t, n) :
                  b \in BaseUrls, t \in Tokens, n \in 0..MaxRetriesBound}
    /\ calls = [c \in Calls |-> IdleCall]

Set(c, r) == calls' = [calls EXCEPT ![c] = r] /\ UNCHANGED sdk

\* Position in the chain: 1..Len(chain) are the middlewares, Len(chain)+1 the
\* raw network send (Next::run with no middleware left).
AtNetwork(c) == calls[c].depth = Len(sdk.chain) + 1

Layer(c) == sdk.chain[calls[c].depth]

(***************************************************************************)
(* LlmSdk::chat_completion, create_image, speech, whisper, embedding, up   *)
(* to the first await: is_json is read, the request prepared, send called. *)
(***************************************************************************)
Dispatch(c, d, boundary) ==
    /\ calls[c].pc = "idle"
    /\ Set(c, [calls[c] EXCEPT
                 !.pc      = "chain",
                 !.op      = d.op,
                 !.desc    = d,
                 !.is_json = (d.response_format = "json"),
                 !.req     = PrepareRequest(sdk, d, boundary),
                 !.depth   = 1,
                 !.dir     = "down"])

\* ClientWithMiddleware::execute on a request built elsewhere.
Execute(c, req) ==
    /\ calls[c].pc = "idle"
    /\ Set(c, [calls[c] EXCEPT
                 !.pc    = "chain",
                 !.op    = "execute",
                 !.req   = req,
                 !.depth = 1,
                 !.dir   = "down"])

(***************************************************************************)
(* The middleware chain.                                                   *)
(***************************************************************************)
\* TracingMiddleware::handle, up to next.run: one span is opened.
TracingEnter(c) ==
    /\ calls[c].pc = "chain" /\ calls[c].dir = "down" /\ ~AtNetwork(c)
    /\ Layer(c) = "tracing"
    /\ Set(c, [calls[c] EXCEPT !.spans = @ + 1, !.depth = @ + 1])

\* TracingMiddleware::handle, after next.run: the outcome is recorded on the
\* span and returned as it is.
TracingExit(c) ==
    /\ calls[c].pc = "chain" /\ calls[c].dir = "up" /\ calls[c].depth >= 1
    /\ Layer(c) = "tracing"
    /\ Set(c, [calls[c] EXCEPT
                 !.observed = Append(@, calls[c].cur),
                 !.depth    = @ - 1])

\* RetryMiddleware::handle, up to the first next.run.  On the retry branch
\* the inner middleware starts its loop: n_past_retries = 0, and the request
\* is try_clone'd, which fails for a streamed body.
RetryEnter(c) ==
    /\ calls[c].pc = "chain" /\ calls[c].dir = "down" /\ ~AtNetwork(c)
    /\ Layer(c) = "retry"
    /\ LET path == RetryPath(calls[c].req)
       IN  IF path = "retry" /\ ~TryClone(calls[c].req).some
           THEN Set(c, [calls[c] EXCEPT
                          !.path    = path,
                          !.cur     = MiddlewareError("not_clonable"),
                          !.handled = MiddlewareError("not_clonable"),
                          !.dir     = "up",
                          !.depth   = @ - 1])
           ELSE Set(c, [calls[c] EXCEPT
                          !.path           = path,
                          !.n_past_retries = 0,
                          !.depth          = @ + 1])

\* As RetryExit, with an error of its own returned once the budget is spent.
RetryExitReplacesFailure(c) ==
    /\ calls[c].pc = "chain" /\ calls[c].dir = "up" /\ calls[c].depth >= 1
    /\ Layer(c) = "retry"
    /\ IF /\ calls[c].path = "retry"
          /\ Retryable(calls[c].cur) = "transient"
          /\ ShouldRetry(calls[c].n_past_retries, sdk.max_retries)
       THEN Set(c, [calls[c] EXCEPT
                      !.waited         = @ + BackoffWait(calls[c].n_past_retries),
                      !.elapsed        = @ + BackoffWait(calls[c].n_past_retries),
                      !.n_past_retries = @ + 1,
                      !.dir            = "down",
                      !.depth          = @ + 1])
       ELSE LET out == IF Retryable(calls[c].cur) = "transient"
                       THEN MiddlewareError("retries_exhausted")
                       ELSE calls[c].cur
            IN  Set(c, [calls[c] EXCEPT
                          !.cur     = out,
                          !.handled = out,
                          !.depth   = @ - 1])

\* The retries made so far by all the calls of a set.
RECURSIVE SharedRetries(_)
SharedRetries(S) ==
    IF S = {} THEN 0
    ELSE LET c == CHOOSE x \in S : TRUE
         IN  calls[c].n_past_retries + SharedRetries(S \ {c})

\* As RetryExit, with one count of past retries kept in the middleware for
\* all the calls of the client.
RetryExitSharedCount(c) ==
    /\ calls[c].pc = "chain" /\ calls[c].dir = "up" /\ calls[c].depth >= 1
    /\ Layer(c) = "retry"
    /\ IF /\ calls[c].path = "retry"
          /\ Retryable(calls[c].cur) = "transient"
          /\ ShouldRetry(SharedRetries(Calls), sdk.max_retries)
       THEN Set(c, [calls[c] EXCEPT
                      !.waited         = @ + BackoffWait(calls[c].n_past_retries),
                      !.elapsed        = @ + BackoffWait(calls[c].n_past_retries),
                      !.n_past_retries = @ + 1,
                      !.dir            = "down",
                      !.depth          = @ + 1])
       ELSE Set(c, [calls[c] EXCEPT
                      !.handled = calls[c].cur,
                      !.depth   = @ - 1])

\* RetryMiddleware::handle, when next.run returns.  Bypass: the outcome is
\* returned.  Retry: a transient outcome within the budget is followed by the
\* backoff sleep and another next.run on a clone; anything else is returned.
RetryExit(c) ==
    /\ calls[c].pc = "chain" /\ calls[c].dir = "up" /\ calls[c].depth >= 1
    /\ Layer(c) = "retry"
    /\ IF /\ calls[c].path = "retry"
          /\ Retryable(calls[c].cur) = "transient"
          /\ ShouldRetry(calls[c].n_past_retries, sdk.max_retries)
       THEN Set(c, [calls[c] EXCEPT
                      !.waited         = @ + BackoffWait(calls[c].n_past_retries),
                      !.elapsed        = @ + BackoffWait(calls[c].n_past_retries),
                      !.n_past_retries = @ + 1,
                      !.dir            = "down",
                      !.depth          = @ + 1])
       ELSE Set(c, [calls[c] EXCEPT
                      !.handled = calls[c].cur,
                      !.depth   = @ - 1])

\* As NetworkSend, with a send started while the previous one is in flight.
NetworkSendOverlapping(c) ==
    /\ calls[c].pc = "chain" /\ calls[c].dir = "down" /\ AtNetwork(c)
    /\ calls[c].inflight <= 1
    /\ Set(c, [calls[c] EXCEPT
                 !.inflight = @ + 1,
                 !.attempts = @ + 1,
                 !.sent     = Append(@, IF calls[c].path = "retry"
                                           THEN TryClone(calls[c].req).req
                                           ELSE calls[c].req)])

\* The raw send: the request goes on the wire (the original on the bypass
\* branch, the loop's clone on the retry branch).
NetworkSend(c) ==
    /\ calls[c].pc = "chain" /\ calls[c].dir = "down" /\ AtNetwork(c)
    /\ calls[c].inflight = 0
    /\ Set(c, [calls[c] EXCEPT
                 !.inflight = @ + 1,
                 !.attempts = @ + 1,
                 !.sent     = Append(@, IF calls[c].path = "retry"
                                           THEN TryClone(calls[c].req).req
                                           ELSE calls[c].req)])

\* The attempt ends: an answer, a send error, or the request's timeout.
NetworkComplete(c, answer, latency) ==
    /\ calls[c].pc = "chain" /\ calls[c].dir = "down" /\ AtNetwork(c)
    /\ calls[c].inflight = 1
    /\ LET e == AttemptEnd(calls[c].req, answer, latency)
       IN  Set(c, [calls[c] EXCEPT
                     !.inflight = @ - 1,
                     !.cur      = e.outcome,
                     !.last     = e.outcome,
                     !.log      = Append(@, Summary(e.outcome)),
                     !.elapsed  = @ + e.took,
                     !.dir      = "up",
                     !.depth    = @ - 1])

(***************************************************************************)
(* send_and_log and the decoding tail of each operation.                   *)
(***************************************************************************)
\* self.send().await? and the status test.
SendReturn(c) ==
    /\ calls[c].pc = "chain" /\ calls[c].dir = "up" /\ calls[c].depth = 0
    /\ LET o == calls[c].cur
       IN  IF calls[c].op = "execute"
           THEN Set(c, [calls[c] EXCEPT !.pc = "done"])
           ELSE IF o.kind # "response"
           THEN Set(c, [calls[c] EXCEPT !.pc = "done", !.result = SendError(o)])
           ELSE IF SendAndLogFails(o.status)
           THEN Set(c, [calls[c] EXCEPT !.pc = "errbody"])
           ELSE Set(c, [calls[c] EXCEPT !.pc = "decode"])

\* res.text().await?, error!(...), return Err(anyhow!(...)).
ReadErrorBody(c, readOk) ==
    /\ calls[c].pc = "errbody"
    /\ IF readOk
       THEN Set(c, [calls[c] EXCEPT
                      !.pc     = "done",
                      !.read   = "ok",
                      !.errlog = Append(@, API_FAILED_PREFIX \o calls[c].cur.body),
                      !.result = ApiFailed(calls[c].cur.body)])
       ELSE Set(c, [calls[c] EXCEPT
                      !.pc     = "done",
                      !.read   = "err",
                      !.result = Err("reqwest:body", <<>>)])

\* res.json().await? / res.bytes().await? / res.text().await?
DecodeBody(c, readOk) ==
    /\ calls[c].pc = "decode"
    /\ IF readOk
       THEN Set(c, [calls[c] EXCEPT
                      !.pc     = "done",
                      !.read   = "ok",
                      !.result = Decode(calls[c].op, calls[c].is_json,
                                        calls[c].cur.body)])
       ELSE Set(c, [calls[c] EXCEPT
                      !.pc     = "done",
                      !.read   = "err",
                      !.result = Err("reqwest:body", <<>>)])

Step(c) ==
    \/ \E d \in Descriptors, b \in Boundaries : Dispatch(c, d, b)
    \/ \E req \in ExecuteRequests : Execute(c, req)
    \/ TracingEnter(c)
    \/ TracingExit(c)
    \/ RetryEnter(c)
    \/ RetryExit(c)
    \/ NetworkSend(c)
    \/ \E a \in ServerAnswers, l \in Latencies : NetworkComplete(c, a, l)
    \/ SendReturn(c)
    \/ \E readOk \in BOOLEAN : ReadErrorBody(c, readOk)
    \/ \E readOk \in BOOLEAN : DecodeBody(c, readOk)

Next == \E c \in SpecCalls : Step(c)

Spec == Init /\ [][Next]_vars

(***************************************************************************)
(* Two calls of the operations on one shared LlmSdk, their steps           *)
(* interleaved in any order: the futures of two tasks that hold clones of  *)
(* the client.                                                             *)
(***************************************************************************)
ConcurrentDescriptors ==
    {d \in Descriptors :
        \/ d.op \in {"chat_completion", "create_image"}
        \/ /\ d.op = "whisper" /\ d.response_format = "text"
           /\ d.request_type = "transcription" /\ d.options = {"language"}
        \/ /\ d.op = "whisper" /\ d.response_format = "json"
           /\ d.request_type = "translation"
           /\ d.options = {"language", "prompt", "temperature"}}

ConcurrentAnswers ==
    {Response(200, JsonObject("text", "hi")),
     Response(400, <<"hi">>),
     Response(500, <<"hi">>)}

ConcurrentLatencies == {1}

StepConcurrent(c) ==
    \/ \E d \in ConcurrentDescriptors, b \in Boundaries : Dispatch(c, d, b)
    \/ TracingEnter(c)
    \/ TracingExit(c)
    \/ RetryEnter(c)
    \/ RetryExit(c)
    \/ NetworkSend(c)
    \/ \E a \in ConcurrentAnswers, l \in ConcurrentLatencies :
          NetworkComplete(c, a, l)
    \/ SendReturn(c)
    \/ \E readOk \in BOOLEAN : ReadErrorBody(c, readOk)
    \/ \E readOk \in BOOLEAN : DecodeBody(c, readOk)

NextConcurrent == \E c \in Calls : StepConcurrent(c)

SpecConcurrent == Init /\ [][NextConcurrent]_vars

(***************************************************************************)
(* Vocabulary of the properties.                                           *)
(***************************************************************************)
Started(c) == calls[c].pc # "idle"

Done(c) == calls[c].pc = "done"

\* A call made through one of the five operations of LlmSdk.
IsDispatched(c) == calls[c].op \in JsonOps \cup {"whisper"}

\* The Content-Type bytes hold multipart/form-data, or are exactly
\* application/octet-stream.
ExcludedBytes(req) ==
    /\ req.content_type.present
    /\ \/ Contains(req.content_type.value, MULTIPART_FORM_DATA)
       \/ req.content_type.value = APPLICATION_OCTET_STREAM

\* The same, for a value that reads as a string of visible ASCII.
ExcludedString(req) ==
    /\ ExcludedBytes(req)
    /\ \A i \in 1..Len(req.content_type.value) :
          req.content_type.value[i] # OpaqueByte

InRange(x, lo, hi) == lo <= x /\ x <= hi

C2_NonRetryableAsStated(o) ==
    /\ o.kind = "response"
    /\ \/ InRange(o.status, 200, 399)
       \/ InRange(o.status, 400, 499) /\ o.status # 429

\* The same, with 408 left out as well.
C2_NonRetryable(o) ==
    /\ o.kind = "response"
    /\ \/ InRange(o.status, 200, 399)
       \/ InRange(o.status, 400, 499) /\ o.status # 429 /\ o.status # 408

\* C2 as stated: a request that is not multipart/octet-stream is sent at
\* most max_retries + 1 times, and never again after an attempt that ended
\* in a success or in a 4xx other than 429.
C2_BudgetAsStated ==
    \A c \in Calls :
        (Started(c) /\ ~ExcludedBytes(calls[c].req)) =>
            /\ calls[c].attempts <= sdk.max_retries + 1
            /\ \A i \in 1..Len(calls[c].log) :
                  C2_NonRetryableAsStated(calls[c].log[i]) => calls[c].attempts = i

\* C2 as amended: at most max_retries + 1 attempts, and none after an
\* attempt that ended in a success or in a 4xx other than 408 and 429.
C2_Budget ==
    \A c \in Calls :
        (Started(c) /\ ~ExcludedBytes(calls[c].req)) =>
            /\ calls[c].attempts <= sdk.max_retries + 1
            /\ \A i \in 1..Len(calls[c].log) :
                  C2_NonRetryable(calls[c].log[i]) => calls[c].attempts = i

\* The budget is used up: max_retries + 1 attempts, the last one a failure
\* that would otherwise be retried, and the call has returned.
C2_Witness ==
    \E c \in Calls :
        /\ Done(c) /\ ~ExcludedBytes(calls[c].req)
        /\ sdk.max_retries >= 1
        /\ calls[c].attempts = sdk.max_retries + 1
        /\ calls[c].log[calls[c].attempts].status = 429

(***************************************************************************)
(* C3.  The timeout.                                                       *)
(***************************************************************************)
\* C3 as stated: the 30 s timeout bounds the whole logical call, retries
\* and backoff waits included: no call of an operation runs past it.
C3_WholeCallWithinTimeout ==
    \A c \in Calls : IsDispatched(c) => calls[c].elapsed <= TIMEOUT

\* C3 as amended: the 30 s timeout is carried by the request and bounds each
\* send attempt: an attempt not complete after 30 s ends in a timeout error,
\* which on the retry path is retried (with 30 s of its own) while the budget
\* lasts.  A call takes at most 30 s per attempt plus its backoff waits.
C3_TimeoutPerAttempt ==
    \A c \in Calls :
        IsDispatched(c) =>
            /\ calls[c].req.timeout = 30
            /\ calls[c].elapsed <= calls[c].attempts * 30 + calls[c].waited
            /\ \A i \in 1..Len(calls[c].log) :
                  ( /\ calls[c].log[i] = Summary(ReqwestError("timeout"))
                    /\ calls[c].path = "retry"
                    /\ i <= sdk.max_retries
                    /\ Done(c) ) => Len(calls[c].log) > i

\* A call whose first attempt timed out was sent again, and has run for more
\* than the timeout when it returns.
C3_Witness ==
    \E c \in Calls :
        /\ Done(c) /\ IsDispatched(c)
        /\ calls[c].attempts >= 2
        /\ calls[c].log[1] = Summary(ReqwestError("timeout"))
        /\ calls[c].elapsed > TIMEOUT

(***************************************************************************)
(* C4.  Status classification.                                             *)
(***************************************************************************)
\* The final response of a call that has returned.
FinalResponse(c) ==
    Done(c) /\ IsDispatched(c) /\ calls[c].cur.kind = "response"

\* C4 as stated: a final response with status in [400,599] makes the
\* operation fail with the response's raw text body; one with status in
\* [200,399] goes on to decoding and never yields an "API failed" error.
C4_ClassificationAsStated ==
    \A c \in Calls :
        FinalResponse(c) =>
            /\ InRange(calls[c].cur.status, 400, 599) =>
                  /\ calls[c].result.state = "err"
                  /\ calls[c].result.text = API_FAILED_PREFIX \o calls[c].cur.body
            /\ InRange(calls[c].cur.status, 200, 399) =>
                  calls[c].result.type # "api_failed"

\* C4 as amended: with status in [400,599] the operation fails, without any
\* structured decoding: with "API failed: " and the raw text body when the
\* body could be read, with the read error otherwise.  With status in
\* [200,399] the body goes to the operation's decoding, and the result is
\* never "API failed".
C4_Classification ==
    \A c \in Calls :
        /\ calls[c].pc = "errbody" => InRange(calls[c].cur.status, 400, 599)
        /\ calls[c].pc = "decode"  => InRange(calls[c].cur.status, 200, 399)
        /\ FinalResponse(c) =>
            /\ InRange(calls[c].cur.status, 400, 599) =>
                  /\ calls[c].result.state = "err"
                  /\ \/ /\ calls[c].result.type = "api_failed"
                        /\ calls[c].result.text =
                               API_FAILED_PREFIX \o calls[c].cur.body
                     \/ calls[c].result = Err("reqwest:body", <<>>)
            /\ InRange(calls[c].cur.status, 200, 399) =>
                  /\ calls[c].result.type # "api_failed"
                  /\ calls[c].errlog = <<>>
                  /\ ( \/ calls[c].result.state = "ok"
                       \/ calls[c].result.type \in {"reqwest:decode", "reqwest:body"} )

\* A call that ended on a 4xx has failed with the body's text, and the body
\* was one a decoder would have accepted.
C4_Witness ==
    \E c \in Calls :
        /\ FinalResponse(c)
        /\ calls[c].cur.status = 400
        /\ IsJsonObject(calls[c].cur.body)
        /\ calls[c].result = Err("api_failed", API_FAILED_PREFIX \o calls[c].cur.body)

(***************************************************************************)
(* C5.  Non-retryable HTTP failures.                                       *)
(***************************************************************************)
\* The request of an operation is multipart.
IsMultipartCall(c) == Contains(calls[c].req.content_type.value, MULTIPART_FORM_DATA)

\* The failures C5 calls non-retryable: a 4xx other than 429, or any failing
\* response to a multipart request.
C5_NonRetryableAsStated(c, o) ==
    /\ o.kind = "response"
    /\ \/ InRange(o.status, 400, 499) /\ o.status # 429
       \/ IsMultipartCall(c) /\ InRange(o.status, 400, 599)

\* The same, with 408 left out as well for a request that is not multipart.
C5_NonRetryable(c, o) ==
    /\ o.kind = "response"
    /\ \/ InRange(o.status, 400, 499) /\ o.status # 429 /\ o.status # 408
       \/ IsMultipartCall(c) /\ InRange(o.status, 400, 599)

\* The error value holds the status code.
CarriesStatus(result, status) ==
    \E i \in 1..Len(result.text) : result.text[i] = ToString(status)

\* C5 as stated: a non-retryable HTTP failure is surfaced with no further
\* send attempt, as a failure carrying the status and the raw body text, and
\* is logged at error severity before it is returned.
C5_SurfacedAsStated ==
    \A c \in Calls :
        IsDispatched(c) =>
            /\ \A i \in 1..Len(calls[c].log) :
                  C5_NonRetryableAsStated(c, calls[c].log[i]) => calls[c].attempts = i
            /\ (Done(c) /\ C5_NonRetryableAsStated(c, calls[c].cur)) =>
                  /\ calls[c].result.state = "err"
                  /\ calls[c].result.text = API_FAILED_PREFIX \o calls[c].cur.body
                  /\ CarriesStatus(calls[c].result, calls[c].cur.status)
                  /\ calls[c].errlog = <<calls[c].result.text>>

\* C5 as amended: a 4xx other than 408 and 429, or any failing response to a
\* multipart request, is followed by no further send attempt; the call fails
\* with "API failed: " and the raw body text, which is logged at error
\* severity before the return, or, when the body cannot be read, with the
\* read error and no log entry.  The failure does not carry the status.
C5_Surfaced ==
    \A c \in Calls :
        IsDispatched(c) =>
            /\ \A i \in 1..Len(calls[c].log) :
                  C5_NonRetryable(c, calls[c].log[i]) => calls[c].attempts = i
            /\ (Done(c) /\ C5_NonRetryable(c, calls[c].cur)) =>
                  /\ calls[c].result.state = "err"
                  /\ ~CarriesStatus(calls[c].result, calls[c].cur.status)
                  /\ \/ /\ calls[c].result.type = "api_failed"
                        /\ calls[c].result.text =
                               API_FAILED_PREFIX \o calls[c].cur.body
                        /\ calls[c].errlog = <<calls[c].result.text>>
                     \/ /\ calls[c].result = Err("reqwest:body", <<>>)
                        /\ calls[c].errlog = <<>>

\* A 400 on the first attempt of a retryable request, on a client that
\* retries, has been returned with its text and logged.
C5_Witness ==
    \E c \in Calls :
        /\ Done(c) /\ calls[c].op \in JsonOps
        /\ sdk.max_retries >= 1
        /\ calls[c].attempts = 1
        /\ calls[c].cur.status = 400
        /\ calls[c].result.type = "api_failed"
        /\ Len(calls[c].errlog) = 1

(***************************************************************************)
(* C6.  Auth injection.                                                    *)
(***************************************************************************)
\* C6: every request an operation puts on the wire, first attempt or retry,
\* has no Authorization header when the token is empty, and the header
\* "Bearer <token>" when it is not.
C6_AuthInjection ==
    \A c \in Calls :
        IsDispatched(c) =>
            \A i \in 1..Len(calls[c].sent) :
                IF Len(sdk.token) = 0
                THEN ~calls[c].sent[i].authorization.present
                ELSE /\ calls[c].sent[i].authorization.present
                     /\ calls[c].sent[i].authorization.value
                            = <<"B","e","a","r","e","r"," ">> \o sdk.token

\* A retry was sent with the bearer header of a non-empty token.
C6_Witness ==
    \E c \in Calls :
        /\ IsDispatched(c)
        /\ Len(sdk.token) > 0
        /\ Len(calls[c].sent) >= 2
        /\ calls[c].sent[2].authorization.present

(***************************************************************************)
(* C7.  Content-negotiated decode of whisper.                              *)
(***************************************************************************)
\* A whisper call whose final response is a success and whose body was read.
WhisperDecoded(c) ==
    /\ FinalResponse(c) /\ calls[c].op = "whisper"
    /\ InRange(calls[c].cur.status, 200, 399)
    /\ calls[c].result # Err("reqwest:body", <<>>)

\* The body is a JSON object with a text field.
HasTextField(body) ==
    Len(body) = 5 /\ body[1] = "{" /\ body[2] = "text" /\ body[3] = ":" /\ body[5] = "}"

\* C7: the decoding of a successful whisper response depends only on the
\* request's response_format: Json decodes the body as JSON; every other
\* format returns the raw body as the text, with no JSON parsing, whatever
\* the body looks like.
C7_ContentNegotiatedDecode ==
    \A c \in Calls :
        WhisperDecoded(c) =>
            IF calls[c].desc.response_format = "json"
            THEN IF HasTextField(calls[c].cur.body)
                 THEN calls[c].result = Ok("WhisperResponse", <<calls[c].cur.body[4]>>)
                 ELSE calls[c].result = Err("reqwest:decode", <<>>)
            ELSE calls[c].result = Ok("WhisperResponse", calls[c].cur.body)

\* A request for the text format got a body that is a JSON object, and the
\* result's text is that body as it came.
C7_Witness ==
    \E c \in Calls :
        /\ WhisperDecoded(c)
        /\ calls[c].desc.response_format = "text"
        /\ HasTextField(calls[c].cur.body)
        /\ calls[c].result.text = calls[c].cur.body

(***************************************************************************)
(* C8.  Middleware ordering.                                               *)
(***************************************************************************)
\* C8: the chain is tracing, retry, network: for every logical call the
\* tracing layer is entered once, before the first send attempt, and sees
\* one outcome, the final one after all retries.
C8_TracingWrapsRetry ==
    /\ sdk.chain = <<"tracing", "retry">>
    /\ \A c \in Calls :
        /\ calls[c].spans <= 1
        /\ Len(calls[c].observed) <= 1
        /\ calls[c].attempts >= 1 => calls[c].spans = 1
        /\ calls[c].path # "none" => calls[c].spans = 1
        /\ Len(calls[c].observed) = 1 =>
              /\ calls[c].observed[1] = calls[c].handled
              /\ calls[c].inflight = 0
              /\ calls[c].attempts = Len(calls[c].log)
              /\ calls[c].dir = "up" /\ calls[c].depth = 0
        /\ calls[c].pc \in {"errbody", "decode", "done"} =>
              calls[c].observed = <<calls[c].cur>>

\* After two retries the call has returned with one span and one observed
\* outcome.
C8_Witness ==
    \E c \in Calls :
        /\ Done(c)
        /\ calls[c].attempts = 3
        /\ calls[c].spans = 1
        /\ calls[c].observed = <<calls[c].last>>

(***************************************************************************)
(* C9.  Outcome preservation.                                              *)
(***************************************************************************)
\* RetryMiddleware::handle has returned.
Handled(c) == calls[c].handled # NoOutcome

C10_TransientAsStated(o) ==
    \/ o.kind = "error" /\ o.why \in {"connect", "timeout"}
    \/ o.kind = "response" /\ (InRange(o.status, 500, 599) \/ o.status = 429)

\* The same, with 408.
C10_Transient(o) ==
    \/ o.kind = "error" /\ o.why \in {"connect", "timeout"}
    \/ o.kind = "response"
         /\ (InRange(o.status, 500, 599) \/ o.status = 429 \/ o.status = 408)

\* The send of a non-multipart operation has returned.
SendReturned(c) ==
    /\ calls[c].op \in JsonOps
    /\ calls[c].pc \in {"errbody", "decode", "done"}

\* C10 as stated: when the send of a non-multipart operation ends in a
\* transient failure, max_retries + 1 attempts were made and each of them
\* ended in a transient failure.
C10_OnlyAfterBudgetAsStated ==
    \A c \in Calls :
        (SendReturned(c) /\ C10_TransientAsStated(calls[c].cur)) =>
            /\ calls[c].attempts = sdk.max_retries + 1
            /\ \A i \in 1..Len(calls[c].log) : C10_TransientAsStated(calls[c].log[i])

\* C10 as amended: the same with 408 counted as a transient failure, next
\* to connect and timeout errors, 5xx and 429.
C10_OnlyAfterBudget ==
    \A c \in Calls :
        (SendReturned(c) /\ C10_Transient(calls[c].cur)) =>
            /\ calls[c].attempts = sdk.max_retries + 1
            /\ Len(calls[c].log) = sdk.max_retries + 1
            /\ \A i \in 1..Len(calls[c].log) : C10_Transient(calls[c].log[i])
            /\ calls[c].pc = "done" => calls[c].result.state = "err"

\* An operation on a client with max_retries = 2 has failed with the 429 of
\* its third attempt.
C10_Witness ==
    \E c \in Calls :
        /\ Done(c) /\ calls[c].op \in JsonOps
        /\ sdk.max_retries = 2
        /\ calls[c].attempts = 3
        /\ calls[c].cur.status = 429
        /\ calls[c].result.state = "err"

(***************************************************************************)
(* C11.  Idempotent descriptor build.                                      *)
(***************************************************************************)
\* Two calls were built from equal descriptors.
EqualDescriptors(c, d) ==
    IsDispatched(c) /\ IsDispatched(d) /\ calls[c].desc = calls[d].desc

\* The decoded content of two bodies is equal: the same encoding and the
\* same fields with the same values, whatever frames them.
EquivalentBody(b1, b2) == b1.kind = b2.kind /\ b1.fields = b2.fields

\* A Content-Type value without what follows "boundary=".
WithoutBoundary(v) ==
    IF Contains(v, BOUNDARY_PARAM)
    THEN SubSeq(v, 1, Len(MULTIPART_FORM_DATA) + Len(BOUNDARY_PARAM))
    ELSE v

RelativePath(d) ==
    CASE d.op = "chat_completion" -> "/chat/completions"
      [] d.op = "create_image"    -> "/images/generations"
      [] d.op = "speech"          -> "/audio/speech"
      [] d.op = "embedding"       -> "/embeddings"
      [] d.op = "whisper" /\ d.request_type = "transcription"
                                  -> "/audio/transcriptions"
      [] OTHER                    -> "/audio/translations"

\* C12: the request of every operation, and every attempt sent for it, is a
\* POST to the client's base URL followed by the operation's relative path.
C12_PostToBaseUrl ==
    \A c \in Calls :
        IsDispatched(c) =>
            /\ calls[c].req.method = "POST"
            /\ calls[c].req.url = <<sdk.base_url, RelativePath(calls[c].desc)>>
            /\ \A i \in 1..Len(calls[c].sent) :
                  /\ calls[c].sent[i].method = "POST"
                  /\ calls[c].sent[i].url[1] = sdk.base_url

(***************************************************************************)
(* C13.  Retries are sequential.                                           *)
(***************************************************************************)
\* The backoff waits that precede attempt k: those of the retries 0..k-2.
RECURSIVE WaitsBefore(_)
WaitsBefore(k) == IF k <= 1 THEN 0 ELSE WaitsBefore(k - 1) + 2 ^ (k - 2)

\* C13: a call has at most one send attempt in flight; while attempt k + 1
\* is in flight each of the attempts 1..k has ended in a response or an
\* error, and the backoff waits of the k retries have been served.
C13_SequentialRetries ==
    \A c \in Calls :
        /\ calls[c].inflight \in {0, 1}
        /\ calls[c].attempts = Len(calls[c].log) + calls[c].inflight
        /\ Len(calls[c].sent) = calls[c].attempts
        /\ \A i \in 1..Len(calls[c].log) : calls[c].log[i].kind \in {"response", "error"}
        /\ calls[c].attempts >= 1 => calls[c].waited >= WaitsBefore(calls[c].attempts)
        /\ calls[c].inflight = 1 => calls[c].waited = WaitsBefore(calls[c].attempts)

\* The third attempt of a call is in flight: the two before it have ended,
\* and the waits of 1 s and 2 s are over.
C13_Witness ==
    \E c \in Calls :
        /\ calls[c].inflight = 1
        /\ calls[c].attempts = 3
        /\ Len(calls[c].log) = 2
        /\ calls[c].waited = 3

(***************************************************************************)
(* C14.  Atomic outcome.                                                   *)
(***************************************************************************)
\* The send ended in an error, not in a response.
SendFailed(c) == calls[c].cur.kind # "response"

\* The final response has a failure status.
StatusFailed(c) ==
    calls[c].cur.kind = "response" /\ InRange(calls[c].cur.status, 400, 599)

\* The body could not be read.
ReadFailed(c) == calls[c].read = "err"

\* The operation decodes its response body as JSON.
ExpectsJson(c) ==
    \/ calls[c].op \in {"chat_completion", "create_image", "embedding"}
    \/ calls[c].op = "whisper" /\ calls[c].desc.response_format = "json"

\* The body is a JSON object with the field the response type needs.
ParsesFor(op, body) ==
    /\ Len(body) = 5 /\ body[1] = "{" /\ body[3] = ":" /\ body[5] = "}"
    /\ op = "whisper" => body[2] = "text"
    /\ op \in {"create_image", "embedding"} => body[2] = "data"

\* The body was read and is not what the operation decodes.
DecodeFailed(c) ==
    /\ calls[c].cur.kind = "response" /\ ~StatusFailed(c) /\ calls[c].read = "ok"
    /\ ExpectsJson(c) /\ ~ParsesFor(calls[c].op, calls[c].cur.body)

\* The typed result of the operation for the whole body.
WholeResult(c) ==
    IF ExpectsJson(c)
    THEN [state |-> "ok", type |-> ResponseType(calls[c].op),
          text  |-> IF calls[c].op = "chat_completion"
                    THEN <<>> ELSE <<calls[c].cur.body[4]>>]
    ELSE [state |-> "ok", type |-> ResponseType(calls[c].op),
          text  |-> calls[c].cur.body]

\* C14: a call of an operation has no outcome until it completes, and then
\* exactly one: an error when the send, the status, the body read or the
\* decoding failed, each failure with an error of its own, and otherwise
\* the typed result for the whole body.
C14_AtomicOutcome ==
    \A c \in Calls :
        IsDispatched(c) =>
            /\ ~Done(c) => calls[c].result = NoResult
            /\ Done(c) =>
                /\ calls[c].result.state \in {"ok", "err"}
                /\ SendFailed(c) =>
                      /\ calls[c].result.state = "err"
                      /\ calls[c].result.type = "reqwest:" \o calls[c].cur.why
                /\ (StatusFailed(c) /\ ~ReadFailed(c)) =>
                      /\ calls[c].result.state = "err"
                      /\ calls[c].result.type = "api_failed"
                /\ ReadFailed(c) =>
                      calls[c].result = [state |-> "err", type |-> "reqwest:body",
                                         text |-> <<>>]
                /\ DecodeFailed(c) =>
                      calls[c].result = [state |-> "err", type |-> "reqwest:decode",
                                         text |-> <<>>]
                /\ ~(SendFailed(c) \/ StatusFailed(c) \/ ReadFailed(c) \/ DecodeFailed(c))
                      => calls[c].result = WholeResult(c)

\* A call has failed in decoding: the response was a success, its body was
\* read, and it is not what the operation decodes.
C14_Witness ==
    \E c \in Calls :
        /\ Done(c) /\ calls[c].op = "embedding"
        /\ calls[c].cur.kind = "response" /\ calls[c].cur.status = 200
        /\ calls[c].read = "ok"
        /\ calls[c].cur.body = <<"hi">>
        /\ calls[c].result.state = "err"

(***************************************************************************)
(* C15.  Permissive retry default.                                         *)
(***************************************************************************)
\* RetryMiddleware::handle has taken its branch for the call's request.
Branched(c) == calls[c].path # "none"

\* The request has a Content-Type that is neither multipart/form-data (as a
\* substring) nor application/octet-stream (as the whole value).
PresentNotExcluded(req) ==
    /\ req.content_type.present
    /\ ~Contains(req.content_type.value, MULTIPART_FORM_DATA)
    /\ req.content_type.value # APPLICATION_OCTET_STREAM

\* What the transient retry policy does with a request, seen from outside:
\* no send for a body that cannot be cloned, else no attempt beyond the
\* budget, none after an outcome that is not transient, and, once handle
\* has returned, a last attempt that was not transient or was the last of
\* the budget.
UnderRetryPolicy(c) ==
    /\ calls[c].path = "retry"
    /\ ~calls[c].req.cloneable => calls[c].attempts = 0
    /\ calls[c].attempts <= sdk.max_retries + 1
    /\ \A i \in 1..Len(calls[c].log) :
          ~C10_Transient(calls[c].log[i]) => calls[c].attempts = i
    /\ (Handled(c) /\ calls[c].req.cloneable) =>
          \/ ~C10_Transient(calls[c].last)
          \/ calls[c].attempts = sdk.max_retries + 1

\* C15: a request without Content-Type, and a request whose Content-Type is
\* present and not excluded, are both handed to the transient retry policy.
C15_PermissiveDefault ==
    \A c \in Calls :
        Branched(c) =>
            /\ ~calls[c].req.content_type.present => UnderRetryPolicy(c)
            /\ PresentNotExcluded(calls[c].req) => UnderRetryPolicy(c)

\* A request without Content-Type was sent three times: its first two
\* attempts ended in transient failures.
C15_Witness ==
    \E c \in Calls :
        /\ Handled(c)
        /\ ~calls[c].req.content_type.present
        /\ calls[c].attempts = 3
        /\ calls[c].log[1].status = 500

(***************************************************************************)
(* C16.  Concurrent calls on one client are independent.                   *)
(***************************************************************************)
\* The attempts of a call whose send has returned follow from its own
\* request and the outcomes of its own attempts: one attempt on the bypass
\* branch; on the retry branch one more than its own retries, each attempt
\* but the last a transient failure, and the last one not transient or the
\* last of the budget.
OwnAttempts(c) ==
    IF calls[c].path = "bypass"
    THEN calls[c].attempts = 1 /\ calls[c].n_past_retries = 0
    ELSE /\ calls[c].attempts = calls[c].n_past_retries + 1
         /\ Len(calls[c].log) = calls[c].attempts
         /\ \A i \in 1..(calls[c].attempts - 1) : C10_Transient(calls[c].log[i])
         /\ \/ ~C10_Transient(calls[c].last)
            \/ calls[c].attempts = sdk.max_retries + 1

\* Two calls made with the same descriptor that got the same outcomes.
SameCall(c, d) ==
    /\ Done(c) /\ Done(d)
    /\ calls[c].desc = calls[d].desc
    /\ calls[c].log = calls[d].log
    /\ calls[c].cur = calls[d].cur
    /\ calls[c].read = calls[d].read

\* The state of the calls other than c.
Others(c) == [o \in Calls \ {c} |-> calls[o]]

\* C16: no step of a call changes the client or another call; the attempts
\* of a call follow from its own request and outcomes, whatever the other
\* call does in between; two calls with the same descriptor and the same
\* outcomes have the same number of attempts and the same result.
C16_IndependentCalls ==
    /\ [][ /\ sdk' = sdk
           /\ \E c \in Calls : Others(c)' = Others(c) ]_vars
    /\ [](\A c \in Calls : (IsDispatched(c) /\ Handled(c)) => OwnAttempts(c))
    /\ [](\A c, d \in Calls :
             SameCall(c, d) =>
                /\ calls[c].attempts = calls[d].attempts
                /\ calls[c].result = calls[d].result)

\* One call has used its whole budget of two retries, and the other, after
\* it, its own: both have made three attempts.
C16_Witness ==
    /\ Done("c1") /\ Done("c2")
    /\ sdk.max_retries = 2
    /\ calls["c1"].attempts = 3 /\ calls["c1"].n_past_retries = 2
    /\ calls["c2"].attempts = 3 /\ calls["c2"].n_past_retries = 2

(***************************************************************************)
(* C17.  The bypass test is asymmetric and case-sensitive.                 *)
(***************************************************************************)
UpperCase ==
    <<"A","B","C","D","E","F","G","H","I","J","K","L","M","N","O","P","Q","R","S","T","U","V","W","X","Y","Z">>

LowerCase ==
    <<"a","b","c","d","e","f","g","h","i","j","k","l","m","n","o","p","q","r","s","t","u","v","w","x","y","z">>

\* A character in lower case.
LowerOf(ch) ==
    IF \E i \in 1..26 : UpperCase[i] = ch
    THEN LowerCase[CHOOSE i \in 1..26 : UpperCase[i] = ch]
    ELSE ch

\* A header value in lower case.
Lowered(v) == [i \in 1..Len(v) |-> LowerOf(v[i])]

\* Every byte of the value is visible ASCII.
Readable(v) == \A i \in 1..Len(v) : v[i] # "0xFF"

\* The value differs from an excluded one in the case of its letters only.
ExcludedButForCase(v) ==
    /\ \/ Contains(Lowered(v), MULTIPART_FORM_DATA)
       \/ Lowered(v) = APPLICATION_OCTET_STREAM
    /\ ~Contains(v, MULTIPART_FORM_DATA)
    /\ v # APPLICATION_OCTET_STREAM

\* C17: a readable value that holds multipart/form-data anywhere, a
\* boundary parameter after it or not, is sent once; application/octet-stream
\* is sent once only as the whole value; application/octet-stream followed
\* by a parameter, an excluded value in another case, and a value that does
\* not read as a string go through the retry policy.
C17_AsymmetricCaseSensitive ==
    \A c \in Calls :
        (Branched(c) /\ calls[c].req.content_type.present) =>
            LET v == calls[c].req.content_type.value
            IN  /\ (Readable(v) /\ Contains(v, MULTIPART_FORM_DATA)) =>
                      calls[c].path = "bypass" /\ calls[c].attempts <= 1
                /\ v = APPLICATION_OCTET_STREAM =>
                      calls[c].path = "bypass" /\ calls[c].attempts <= 1
                /\ ( /\ Contains(v, APPLICATION_OCTET_STREAM)
                     /\ v # APPLICATION_OCTET_STREAM
                     /\ ~Contains(v, MULTIPART_FORM_DATA) ) =>
                      calls[c].path = "retry"
                /\ ExcludedButForCase(v) => calls[c].path = "retry"
                /\ ~Readable(v) => calls[c].path = "retry"

\* A request with application/octet-stream; charset=binary was sent a
\* second time after a transient failure.
C17_Witness ==
    \E c \in Calls :
        /\ calls[c].req.content_type.value =
               APPLICATION_OCTET_STREAM \o
               <<";"," ","c","h","a","r","s","e","t","=","b","i","n","a","r","y">>
        /\ calls[c].path = "retry"
        /\ calls[c].attempts >= 2

=============================================================================
